---------------------------- MODULE Spec2Model ----------------------------
(***************************************************************************)
(* A model of xbox360iso.py: the container probe (check_iso), the flat     *)
(* root-directory scan and entry extraction (extract_defaultxex), the XEX2 *)
(* header parser (extract_xex_info), the orchestrating parse, and the      *)
(* processing loop of main.                                                *)
(*                                                                         *)
(* Bytes are integers 0..255, byte strings are sequences of bytes, and a   *)
(* Python str that is compared with a literal is the sequence of its       *)
(* character codes.  A call of one of the program's functions yields a     *)
(* record whose kind is "ok" (a value is returned), "False" (the sentinel  *)
(* False is returned after printing a message) or "raise" (an exception    *)
(* leaves the function).                                                   *)
(***************************************************************************)
EXTENDS Integers, Sequences, FiniteSets, TLC

VARIABLES pc, iso_file, iso_info, xex_buffer, xex_info, info,
          iso_files, idx, all_info, stdout,
          written   \* the values an image under test was built from

vars == <<pc, iso_file, iso_info, xex_buffer, xex_info, info,
          iso_files, idx, all_info, stdout, written>>

(***************************************************************************)
(* Bounds of the model.                                                    *)
(***************************************************************************)
\* the largest header_entry_count a generated XEX2 buffer carries
MaxEntries == 2
\* the largest number of images the processing loop is handed
MaxIsos == 2

(***************************************************************************)
(* Literals of the program.                                                *)
(***************************************************************************)
\* 'MICROSOFT*XBOX*MEDIA'
MAGIC == <<77, 73, 67, 82, 79, 83, 79, 70, 84, 42,
           88, 66, 79, 88, 42, 77, 69, 68, 73, 65>>
\* 'XEX2'
XEX2 == <<88, 69, 88, 50>>
\* 'default.xex'
DEFAULT_XEX == <<100, 101, 102, 97, 117, 108, 116, 46, 120, 101, 120>>
\* bytes([0x00, 0x04, 0x00, 0x06])
execution_info_table_flags == <<0, 4, 0, 6>>
\* iso_info['sector_size'] = 0x800
sector_size == 2048
\* self.iso_type
GDF == 265879552
XGD3 == 34078720
XSF == 0

Null == [kind |-> "none"]
RetFalse(msg) == [kind |-> "False", printed |-> msg]
Raise(exc) == [kind |-> "raise", exc |-> exc]

Min(a, b) == IF a < b THEN a ELSE b
Max(a, b) == IF a > b THEN a ELSE b

(***************************************************************************)
(* Byte-string primitives of the Python library, as the program uses them. *)
(***************************************************************************)
\* io.BytesIO: seek(pos) then read(n) -- the bytes present from pos, at most n
BytesIO_read(buf, pos, n) ==
    IF pos >= Len(buf) \/ n <= 0 THEN <<>>
    ELSE SubSeq(buf, pos + 1, Min(pos + n, Len(buf)))

\* bytes.decode("ascii", "ignore"): bytes that are not ASCII are dropped
decode_ascii_ignore(b) == SelectSeq(b, LAMBDA x : x < 128)

\* str.lower() on an ASCII string
lower(s) == [i \in 1..Len(s) |-> IF s[i] >= 65 /\ s[i] <= 90 THEN s[i] + 32 ELSE s[i]]

\* struct.unpack('>I', b)[0] for a 4-byte b
unpack_BE(b) == ((b[1] * 256 + b[2]) * 256 + b[3]) * 256 + b[4]

\* sys.byteorder of the host: struct's native 'I' follows it
sys_byteorder == "little"

\* struct.unpack('I', b)[0] for a 4-byte b (native size and order)
unpack_native(b) ==
    IF sys_byteorder = "little"
    THEN ((b[4] * 256 + b[3]) * 256 + b[2]) * 256 + b[1]
    ELSE unpack_BE(b)

\* one byte as binascii.hexlify renders it: two lowercase digits
hexlify_byte(x) ==
    LET d == <<"0", "1", "2", "3", "4", "5", "6", "7",
               "8", "9", "a", "b", "c", "d", "e", "f">>
    IN  <<d[(x \div 16) + 1], d[(x % 16) + 1]>>

\* the digit left as hexlify gave it
upper_char_kept(c) == c

\* str.upper() on one hexadecimal digit
upper_char(c) ==
    CASE c = "a" -> "A" [] c = "b" -> "B" [] c = "c" -> "C"
      [] c = "d" -> "D" [] c = "e" -> "E" [] c = "f" -> "F"
      [] OTHER -> c

RECURSIVE hexlify_upper(_)
\* binascii.hexlify(b).decode("ascii", "ignore").upper()
hexlify_upper(b) ==
    IF b = <<>> THEN ""
    ELSE LET h == hexlify_byte(b[1])
         IN  upper_char(h[1]) \o upper_char(h[2]) \o hexlify_upper(Tail(b))

\* sys.getsizeof(xex_buffer): the size of the BytesIO object in memory, its
\* header and its private copy of the data (CPython 3.11, 64 bit), not the
\* number of bytes the buffer holds
sys_getsizeof(buf) == IF Len(buf) = 0 THEN 80 ELSE Len(buf) + 114

(***************************************************************************)
(* extract_xex_info.  Every read of xex_buffer is logged as [pos, n]: the  *)
(* position the read starts at and the number of bytes asked for.          *)
(***************************************************************************)
Rd(pos, n) == [pos |-> pos, n |-> n]

WithReads(r, reads) == r @@ [reads |-> reads]

\* the comparison with its operands exchanged
CertOffsetInvalid_swapped(cert_offset, code_offset) == code_offset > cert_offset

\* if cert_offset > code_offset
CertOffsetInvalid(cert_offset, code_offset) == cert_offset > code_offset

\* if info_table_num_entries * 8 + 24 > code_offset
HeaderTableOverflow(info_table_num_entries, code_offset) ==
    info_table_num_entries * 8 + 24 > code_offset

\* the comparison against the number of bytes the buffer holds
CodeOffsetBeyondSize_len(code_offset, buf) == code_offset > Len(buf)

\* if code_offset > sys.getsizeof(xex_buffer)
CodeOffsetBeyondSize(code_offset, buf) == code_offset > sys_getsizeof(buf)

\* the position of a BytesIO after a read of n bytes at pos
Advance(buf, pos, n) == IF pos >= Len(buf) THEN pos ELSE Min(pos + n, Len(buf))

\* the body of the loop over the header table: one record
\* st = [pos, execution_info_address (-1 for False), reads, raised]
HeaderRecord(buf, st) ==
    LET idb == BytesIO_read(buf, st.pos, 4)
        p1  == Advance(buf, st.pos, 4)
        r1  == Append(st.reads, Rd(st.pos, 4))
        r2  == Append(r1, Rd(p1, 4))
    IN  IF Len(idb) # 4
        THEN [st EXCEPT !.reads = r1, !.raised = TRUE]
        ELSE IF unpack_BE(idb) = unpack_BE(execution_info_table_flags)
             THEN LET vb == BytesIO_read(buf, p1, 4)
                  IN  IF Len(vb) # 4
                      THEN [st EXCEPT !.reads = r2, !.raised = TRUE]
                      ELSE [pos |-> Advance(buf, p1, 4),
                            execution_info_address |-> unpack_BE(vb),
                            reads |-> r2, raised |-> FALSE]
             ELSE [st EXCEPT !.pos = Advance(buf, p1, 4), !.reads = r2]

RECURSIVE HeaderScan(_, _, _, _)
\* a scan that leaves the loop at the first matching record
HeaderScan_break(buf, i, info_table_num_entries, st) ==
    IF i >= info_table_num_entries \/ st.raised \/ st.execution_info_address # -1
    THEN st
    ELSE HeaderScan(buf, i + 1, info_table_num_entries, HeaderRecord(buf, st))

\* for i in range(0, info_table_num_entries)
HeaderScan(buf, i, info_table_num_entries, st) ==
    IF i >= info_table_num_entries \/ st.raised THEN st
    ELSE HeaderScan(buf, i + 1, info_table_num_entries, HeaderRecord(buf, st))

\* the decoding of the execution info at execution_info_address
DecodeExecutionInfo(buf, a, reads) ==
    LET media   == BytesIO_read(buf, a, 4)
        p4      == Advance(buf, a, 4)
        version == BytesIO_read(buf, p4, 4)
        p8      == Advance(buf, p4, 4)
        base    == BytesIO_read(buf, p8, 4)
        p12     == Advance(buf, p8, 4)
        title   == BytesIO_read(buf, p12, 4)
        p16     == Advance(buf, p12, 4)
        c1      == BytesIO_read(buf, p16, 1)
        p17     == Advance(buf, p16, 1)
        c2      == BytesIO_read(buf, p17, 1)
        p18     == Advance(buf, p17, 1)
        c3      == BytesIO_read(buf, p18, 1)
        p19     == Advance(buf, p18, 1)
        c4      == BytesIO_read(buf, p19, 1)
        ra      == Append(reads, Rd(a, 4))
        rb      == Append(ra, Rd(p4, 4))
        rc      == Append(rb, Rd(p8, 4))
        rd      == Append(rc, Rd(p12, 4))
        re      == Append(rd, Rd(p16, 1))
        rf      == Append(re, Rd(p17, 1))
        rg      == Append(rf, Rd(p18, 1))
        rh      == Append(rg, Rd(p19, 1))
    IN  IF Len(version) # 4 THEN WithReads(Raise("struct.error"), rb)
        ELSE IF Len(base) # 4 THEN WithReads(Raise("struct.error"), rc)
        ELSE IF Len(c1) # 1 THEN WithReads(Raise("TypeError"), re)
        ELSE IF Len(c2) # 1 THEN WithReads(Raise("TypeError"), rf)
        ELSE IF Len(c3) # 1 THEN WithReads(Raise("TypeError"), rg)
        ELSE IF Len(c4) # 1 THEN WithReads(Raise("TypeError"), rh)
        ELSE [kind |-> "ok",
              value |-> [media_id |-> hexlify_upper(media),
                         version |-> unpack_BE(version),
                         base_version |-> unpack_BE(base),
                         title_id |-> hexlify_upper(title),
                         platform |-> c1[1],
                         executable_type |-> c2[1],
                         disc_number |-> c3[1],
                         disc_count |-> c4[1]],
              reads |-> rh]

\* the scan of the header table and what follows it
ScanAndDecode(buf, info_table_num_entries, reads) ==
    LET st == HeaderScan(buf, 0, info_table_num_entries,
                         [pos |-> 24, execution_info_address |-> -1,
                          reads |-> reads, raised |-> FALSE])
    IN  IF st.raised THEN WithReads(Raise("struct.error"), st.reads)
        ELSE IF st.execution_info_address # -1
             THEN DecodeExecutionInfo(buf, st.execution_info_address, st.reads)
             ELSE WithReads(RetFalse(""), st.reads)

extract_xex_info(buf) ==
    LET r0 == <<Rd(0, 4)>>
        r1 == Append(r0, Rd(8, 4))
        r2 == Append(r1, Rd(16, 4))
        r3 == Append(r2, Rd(20, 4))
        cb == BytesIO_read(buf, 8, 4)
        tb == BytesIO_read(buf, 16, 4)
        nb == BytesIO_read(buf, 20, 4)
    IN  IF decode_ascii_ignore(BytesIO_read(buf, 0, 4)) # XEX2
        THEN WithReads(RetFalse("XEX2 was not found at the start of default.xex"), r0)
        ELSE IF Len(cb) # 4 THEN WithReads(Raise("struct.error"), r1)
        ELSE IF CodeOffsetBeyondSize(unpack_BE(cb), buf)
        THEN WithReads(RetFalse("Starting address of Xex code is beyond size of default.xex"), r1)
        ELSE IF Len(tb) # 4 THEN WithReads(Raise("struct.error"), r2)
        ELSE IF CertOffsetInvalid(unpack_BE(tb), unpack_BE(cb))
        THEN WithReads(RetFalse("Xex certificate offset is beyond the starting address of Xex code"), r2)
        ELSE IF Len(nb) # 4 THEN WithReads(Raise("struct.error"), r3)
        ELSE IF HeaderTableOverflow(unpack_BE(nb), unpack_BE(cb))
        THEN WithReads(RetFalse("Xex general info table has entries that spill over into the Xex code"), r3)
        ELSE ScanAndDecode(buf, unpack_BE(nb), r3)

(***************************************************************************)
(* The image file.  An image is [size, segs]: its length in bytes and the  *)
(* segments written into it, each [at, bytes]; every other byte below size *)
(* is 0.  Opened read-only, it is never changed.                           *)
(***************************************************************************)
ByteAt(f, p) ==
    LET S == { k \in 1..Len(f.segs) :
                 f.segs[k].at <= p /\ p < f.segs[k].at + Len(f.segs[k].bytes) }
    IN  IF S = {} THEN 0
        ELSE LET k == CHOOSE x \in S : \A y \in S : x <= y
             IN  f.segs[k].bytes[p - f.segs[k].at + 1]

\* iso_file.seek(pos) then iso_file.read(n): the bytes present from pos, at most n
file_read(f, pos, n) ==
    [i \in 1..Max(0, Min(n, f.size - pos)) |-> ByteAt(f, pos + i - 1)]

\* self.iso_type[name]
iso_type(name) ==
    CASE name = "GDF" -> GDF [] name = "XGD3" -> XGD3 [] name = "XSF" -> XSF

\* iso_file.read(20).decode("ascii", "ignore") == 'MICROSOFT*XBOX*MEDIA' at a probe
ProbeMatches(f, offset) ==
    decode_ascii_ignore(file_read(f, 32 * sector_size + offset, 20)) = MAGIC

\* a probe order in which the legacy position is looked at last
SelectLayout_legacyLast(legacy, gdf, xgd3) ==
    IF gdf THEN "GDF" ELSE IF xgd3 THEN "XGD3" ELSE IF legacy THEN "XSF" ELSE "unknown"

\* a probe order in which XGD3 is looked at before GDF
SelectLayout_xgd3First(legacy, gdf, xgd3) ==
    IF legacy THEN "XSF" ELSE IF xgd3 THEN "XGD3" ELSE IF gdf THEN "GDF" ELSE "unknown"

\* the nesting of the three probes: which layout the if/else chain settles on
SelectLayout(legacy, gdf, xgd3) ==
    IF legacy THEN "XSF" ELSE IF gdf THEN "GDF" ELSE IF xgd3 THEN "XGD3" ELSE "unknown"

\* what follows the acceptance of a layout: identifier, root directory, sizes
ReadLayout(f, root_offset) ==
    LET base == 32 * sector_size + root_offset
        sb   == file_read(f, base + 20, 4)
        zb   == file_read(f, base + 24, 4)
    IN  IF Len(sb) # 4 \/ Len(zb) # 4 THEN Raise("struct.error")
        ELSE [kind |-> "ok",
              value |-> [sector_size |-> sector_size,
                         root_offset |-> root_offset,
                         identifier |-> decode_ascii_ignore(file_read(f, base, 20)),
                         root_dir_sector |-> unpack_native(sb),
                         root_dir_size |-> unpack_native(zb),
                         image_size |-> f.size,
                         volume_size |-> f.size - root_offset,
                         \* a true division: the quotient as numerator and denominator
                         volume_sectors |-> <<f.size - root_offset, sector_size>>]]

check_iso(f) ==
    LET layout == SelectLayout(ProbeMatches(f, 0),
                               ProbeMatches(f, iso_type("GDF")),
                               ProbeMatches(f, iso_type("XGD3")))
    IN  IF layout = "XSF" THEN RetFalse("Original Xbox ISO format not supported")
        ELSE IF layout = "unknown" THEN RetFalse("Unknown ISO format")
        ELSE ReadLayout(f, iso_type(layout))

(***************************************************************************)
(* extract_defaultxex: the flat scan of the root directory for the entry   *)
(* named 'default.xex', and the read of the entry's data.                  *)
(***************************************************************************)
\* int.from_bytes(b, byteorder='big') of what a read of one byte gave
int_from_bytes(b) == IF b = <<>> THEN 0 ELSE b[1]

\* position i of root_sector_buffer: the byte after it is 11 and the 11 bytes
\* after that, decoded and lowered, are 'default.xex'
EntryMatches(buf, i) ==
    /\ int_from_bytes(BytesIO_read(buf, i + 1, 1)) = 11
    /\ lower(decode_ascii_ignore(BytesIO_read(buf, i + 2, 11))) = DEFAULT_XEX

\* a position read without the displacement of the layout
EntryDataOffset_noRoot(layout, file_sector) == file_sector * layout.sector_size

\* iso_info['root_offset'] + (file_sector * iso_info['sector_size'])
EntryDataOffset(layout, file_sector) ==
    layout.root_offset + (file_sector * layout.sector_size)

\* the body of the two ifs: the fields before position i, then the data
ReadEntry(f, layout, buf, i) ==
    LET sb == BytesIO_read(buf, i - 8, 4)
        zb == BytesIO_read(buf, i - 4, 4)
    IN  IF i - 8 < 0 THEN Raise("ValueError")
        ELSE IF Len(sb) # 4 \/ Len(zb) # 4 THEN Raise("struct.error")
        ELSE [kind |-> "ok",
              value |-> file_read(f, EntryDataOffset(layout, unpack_native(sb)),
                                  unpack_native(zb)),
              i |-> i,
              file_sector |-> unpack_native(sb),
              file_size |-> unpack_native(zb)]

\* a scan that stops one position early
ScanStop_short(root_dir_size) == root_dir_size - 13

\* range(0, iso_info['root_dir_size'] - 12): the first position not scanned
ScanStop(root_dir_size) == root_dir_size - 12

RECURSIVE ScanRootDir(_, _, _, _)
\* for i in range(0, iso_info['root_dir_size'] - 12)
ScanRootDir(f, layout, buf, i) ==
    IF i >= ScanStop(layout.root_dir_size) THEN RetFalse("default.xex not found")
    ELSE IF EntryMatches(buf, i) THEN ReadEntry(f, layout, buf, i)
    ELSE ScanRootDir(f, layout, buf, i + 1)

extract_defaultxex(f, layout) ==
    LET root_sector_buffer ==
            file_read(f, (layout.root_dir_sector * layout.sector_size) + layout.root_offset,
                      layout.root_dir_size)
    IN  ScanRootDir(f, layout, root_sector_buffer, 0)

(***************************************************************************)
(* parse: the three stages in turn, inside try/except Exception.           *)
(***************************************************************************)
\* self.game_lookup.get(title_id, "Unknown"): the table load_game_lookup read
game_lookup(title_id) ==
    IF title_id = "4D5307D1" THEN "Halo 3" ELSE "Unknown"

\* open(filename, "rb")
CanOpen(f) == "unreadable" \notin DOMAIN f

\* props = iso_info.copy(); props.update(xex_info), with game_name added
Props(layout, xex) ==
    [sector_size |-> layout.sector_size, root_offset |-> layout.root_offset,
     identifier |-> layout.identifier, root_dir_sector |-> layout.root_dir_sector,
     root_dir_size |-> layout.root_dir_size, image_size |-> layout.image_size,
     volume_size |-> layout.volume_size, volume_sectors |-> layout.volume_sectors,
     media_id |-> xex.media_id, version |-> xex.version,
     base_version |-> xex.base_version, title_id |-> xex.title_id,
     platform |-> xex.platform, executable_type |-> xex.executable_type,
     disc_number |-> xex.disc_number, disc_count |-> xex.disc_count,
     game_name |-> game_lookup(xex.title_id)]

ReturnNone == [kind |-> "None"]

\* the body of the try block: a dictionary, None, or an exception
TryBody(f) ==
    IF ~CanOpen(f) THEN Raise("OSError")
    ELSE LET ci == check_iso(f) IN
         IF ci.kind = "False" THEN ReturnNone
         ELSE IF ci.kind = "raise" THEN ci
         ELSE LET xb == extract_defaultxex(f, ci.value) IN
              IF xb.kind = "False" THEN ReturnNone
              ELSE IF xb.kind = "raise" THEN Raise(xb.exc)
              ELSE LET xi == extract_xex_info(xb.value) IN
                   IF xi.kind = "False" THEN ReturnNone
                   ELSE IF xi.kind = "raise" THEN Raise(xi.exc)
                   ELSE [kind |-> "ok", value |-> Props(ci.value, xi.value)]

\* a parse whose try has no except clause
parse_uncaught(f) == TryBody(f)

\* except Exception as e: print(...); return None
parse(f) ==
    LET r == TryBody(f)
    IN  IF r.kind = "raise" THEN ReturnNone ELSE r

(***************************************************************************)
(* The XEX2 buffers extract_xex_info is applied to: a 24-byte header, the  *)
(* header table, and two overlapping 20-byte execution-info areas at 0x30  *)
(* and 0x40, cut or zero-padded to a length.                               *)
(***************************************************************************)
pack_BE(v) == <<v \div 16777216, (v \div 65536) % 256, (v \div 256) % 256, v % 256>>

Zeros(n) == [i \in 1..n |-> 0]

RECURSIVE Concat(_)
Concat(ss) == IF ss = <<>> THEN <<>> ELSE Head(ss) \o Concat(Tail(ss))

Resize(b, n) == IF n <= Len(b) THEN SubSeq(b, 1, n) ELSE b \o Zeros(n - Len(b))

\* the id of the execution-info record, 0x00040006, and of some other record
ExecutionInfoId == unpack_BE(execution_info_table_flags)
OtherId == unpack_BE(<<0, 1, 1, 255>>)

ExecInfoArea ==
    << 1, 35, 69, 103,   0, 0, 0, 2,   0, 0, 0, 1,   137, 171, 205, 239,
       10, 188, 222, 241,   0, 0, 1, 0,   0, 0, 0, 7,   77, 83, 7, 209,
       2, 1, 1, 2 >>

XexRecords == { <<ExecutionInfoId, 48>>, <<ExecutionInfoId, 64>>,
                <<ExecutionInfoId, 80>>, <<OtherId, 64>> }

XexRecordLists == UNION { [1..k -> XexRecords] : k \in 0..MaxEntries }

XexMagics == { XEX2, <<88, 69, 88, 49>>, <<88, 200, 69, 88>> }

XexCodeOffsets == { 24, 32, 40, 48, 256, 512 }

XexCertOffsets == { 0, 32, 512, 768 }

XexLengths == { 0, 4, 12, 20, 24, 28, 36, 78, 80, 84, 142, 256 }

BuildXexWith(magic, code_offset, cert_offset, recs, area, len) ==
    LET head  == magic \o Zeros(4) \o pack_BE(code_offset) \o Zeros(4)
                 \o pack_BE(cert_offset) \o pack_BE(Len(recs))
        table == Concat([i \in 1..Len(recs) |-> pack_BE(recs[i][1]) \o pack_BE(recs[i][2])])
    IN  Resize(Resize(head \o table, 48) \o area, len)

BuildXex(magic, code_offset, cert_offset, recs, len) ==
    BuildXexWith(magic, code_offset, cert_offset, recs, ExecInfoArea, len)

XexBuffers ==
    { BuildXex(m, c, t, r, l) : m \in XexMagics, c \in XexCodeOffsets,
                                t \in XexCertOffsets, r \in XexRecordLists,
                                l \in XexLengths }

(***************************************************************************)
(* extract_xex_info applied to a buffer.                                   *)
(***************************************************************************)
InitXex ==
    /\ pc = "extract_xex_info"
    /\ xex_buffer \in XexBuffers
    /\ xex_info = Null
    /\ iso_file = Null /\ iso_info = Null /\ info = Null
    /\ iso_files = <<>> /\ idx = 0 /\ all_info = <<>> /\ stdout = <<>> /\ written = Null

ExtractXexInfo ==
    /\ pc = "extract_xex_info"
    /\ xex_info' = extract_xex_info(xex_buffer)
    /\ pc' = "returned"
    /\ UNCHANGED <<iso_file, iso_info, xex_buffer, info, iso_files, idx, all_info, stdout, written>>

SpecXex == InitXex /\ [][ExtractXexInfo]_vars

(***************************************************************************)
(* The fields of a buffer, read off its bytes.                             *)
(***************************************************************************)
U32At(b, off) == b[off + 1] * 16777216 + b[off + 2] * 65536 + b[off + 3] * 256 + b[off + 4]

HasBytes(b, off, n) == off + n <= Len(b)

StartsWithXEX2(b) == HasBytes(b, 0, 4) /\ b[1] = 88 /\ b[2] = 69 /\ b[3] = 88 /\ b[4] = 50

CodeOffsetOf(b) == U32At(b, 8)
CertOffsetOf(b) == U32At(b, 16)
EntryCountOf(b) == U32At(b, 20)

\* the indices (from 0) of the header-table records with the execution-info id
ExecRecords(b) ==
    { k \in 0..(EntryCountOf(b) - 1) :
        HasBytes(b, 24 + 8 * k, 8) /\ U32At(b, 24 + 8 * k) = 262150 }

RecordValue(b, k) == U32At(b, 28 + 8 * k)

TableInside(b) == HasBytes(b, 0, 24 + 8 * EntryCountOf(b))

UpperHex == <<"0", "1", "2", "3", "4", "5", "6", "7",
              "8", "9", "A", "B", "C", "D", "E", "F">>

Hex4(b, off) ==
    LET h(x) == UpperHex[(x \div 16) + 1] \o UpperHex[(x % 16) + 1]
    IN  h(b[off + 1]) \o h(b[off + 2]) \o h(b[off + 3]) \o h(b[off + 4])

HeaderReads == <<Rd(0, 4), Rd(8, 4), Rd(16, 4), Rd(20, 4)>>

IsPrefix(s, t) == Len(s) <= Len(t) /\ s = SubSeq(t, 1, Len(s))

Returned == pc = "returned"

\* the three invariants the specification lists
ThreeInvariants(b) ==
    /\ StartsWithXEX2(b) /\ HasBytes(b, 0, 24)
    /\ CertOffsetOf(b) <= CodeOffsetOf(b)
    /\ EntryCountOf(b) * 8 + 24 <= CodeOffsetOf(b)

\* the buffer reaches the scan of the header table
PassesValidation(b) == ThreeInvariants(b) /\ CodeOffsetOf(b) <= sys_getsizeof(b)

(***************************************************************************)
(* C3: a buffer starting with 'XEX2' whose cert_offset exceeds its         *)
(* code_offset, or whose header_entry_count*8 + 24 exceeds its             *)
(* code_offset, is rejected (False is returned), and the reads made are    *)
(* only the header fields up to the failing comparison: no header-table    *)
(* record, no execution-info byte, nothing past the end of the buffer.     *)
(***************************************************************************)
C3_Rejected(maxReads) ==
    /\ xex_info.kind = "False"
    /\ Len(xex_info.reads) <= maxReads
    /\ IsPrefix(xex_info.reads, HeaderReads)
    /\ \A i \in 1..Len(xex_info.reads) :
          xex_info.reads[i].pos + xex_info.reads[i].n <= Min(24, Len(xex_buffer))

C3_InvalidHeaderRejectedWithoutFurtherRead ==
    (Returned /\ StartsWithXEX2(xex_buffer)) =>
        /\ (HasBytes(xex_buffer, 0, 20) /\ CertOffsetOf(xex_buffer) > CodeOffsetOf(xex_buffer))
              => C3_Rejected(3)
        /\ (HasBytes(xex_buffer, 0, 24)
              /\ EntryCountOf(xex_buffer) * 8 + 24 > CodeOffsetOf(xex_buffer))
              => C3_Rejected(4)

\* a cert_offset beyond a code_offset that is itself acceptable, and a header
\* table that would have been readable
C3_Witness ==
    /\ Returned /\ StartsWithXEX2(xex_buffer) /\ HasBytes(xex_buffer, 0, 84)
    /\ CertOffsetOf(xex_buffer) > CodeOffsetOf(xex_buffer)
    /\ CodeOffsetOf(xex_buffer) <= sys_getsizeof(xex_buffer)
    /\ EntryCountOf(xex_buffer) * 8 + 24 <= CodeOffsetOf(xex_buffer)
    /\ ExecRecords(xex_buffer) # {}
    /\ Len(xex_info.reads) = 3

SetMax(S) == CHOOSE x \in S : \A y \in S : y <= x

\* the value of the last header-table record with the execution-info id
LastExecValue(b) == RecordValue(b, SetMax(ExecRecords(b)))

\* the reads of the header table: two reads of 4 bytes for each of n records
TableReadsDone(reads, n) ==
    /\ Len(reads) >= 4 + 2 * n
    /\ \A k \in 0..(n - 1) :
          /\ reads[4 + 2 * k + 1] = Rd(24 + 8 * k, 4)
          /\ reads[4 + 2 * k + 2] = Rd(28 + 8 * k, 4)

(***************************************************************************)
(* C4, as stated: a buffer with magic 'XEX2', cert_offset <= code_offset   *)
(* and header_entry_count*8 + 24 <= code_offset, whose header table (read  *)
(* here as: lying inside the buffer and holding exactly one record with id *)
(* 0x00040006) gives a value v with the 20 bytes at v inside the buffer,   *)
(* is accepted, and title_id is the uppercase hex of bytes v+12..v+15 --   *)
(* whatever the relation of code_offset to the size of the buffer.         *)
(***************************************************************************)
C4_Accepted ==
    /\ xex_info.kind = "ok"
    /\ xex_info.value.title_id = Hex4(xex_buffer, LastExecValue(xex_buffer) + 12)

C4_Original_ThreeInvariantsSuffice ==
    (/\ Returned
     /\ ThreeInvariants(xex_buffer)
     /\ TableInside(xex_buffer)
     /\ Cardinality(ExecRecords(xex_buffer)) = 1
     /\ HasBytes(xex_buffer, LastExecValue(xex_buffer), 20))
    => C4_Accepted

(***************************************************************************)
(* C4, amended: there is a fourth validation.  A buffer with magic 'XEX2'  *)
(* whose code_offset exceeds sys.getsizeof of the buffer object is         *)
(* rejected; a buffer that satisfies code_offset <= sys.getsizeof(buffer), *)
(* cert_offset <= code_offset and header_entry_count*8 + 24 <= code_offset,*)
(* whose header_entry_count records all lie inside the buffer, and whose   *)
(* last record with id 0x00040006 has a value v with the 20 bytes at v     *)
(* inside the buffer, is accepted with title_id the uppercase hex of bytes *)
(* v+12..v+15.                                                             *)
(***************************************************************************)
C4_AcceptedUnderFourValidations ==
    Returned =>
        /\ (/\ PassesValidation(xex_buffer)
            /\ TableInside(xex_buffer)
            /\ ExecRecords(xex_buffer) # {}
            /\ HasBytes(xex_buffer, LastExecValue(xex_buffer), 20))
           => C4_Accepted
        /\ (/\ StartsWithXEX2(xex_buffer) /\ HasBytes(xex_buffer, 0, 12)
            /\ CodeOffsetOf(xex_buffer) > sys_getsizeof(xex_buffer))
           => /\ xex_info.kind = "False"
              /\ xex_info.printed = "Starting address of Xex code is beyond size of default.xex"

\* the scenario of the specification, in a buffer shorter than its code_offset
C4_Witness ==
    /\ Returned
    /\ StartsWithXEX2(xex_buffer) /\ Len(xex_buffer) = 142
    /\ CodeOffsetOf(xex_buffer) = 256 /\ CertOffsetOf(xex_buffer) = 32
    /\ EntryCountOf(xex_buffer) = 1
    /\ ExecRecords(xex_buffer) = {0} /\ RecordValue(xex_buffer, 0) = 64
    /\ xex_info.kind = "ok" /\ xex_info.value.title_id = "4D5307D1"

(***************************************************************************)
(* C5, as stated: for a buffer that passes header validation the scan of   *)
(* the header table starts at offset 24, reads exactly header_entry_count  *)
(* records of 8 bytes and halts; it never ends in an exception, and when   *)
(* no record has id 0x00040006 the parser returns the failure              *)
(* ExecutionInfoNotFound (False) right after the last record.              *)
(***************************************************************************)
C5_TableScanReadsAllRecordsAndHalts ==
    (Returned /\ PassesValidation(xex_buffer)) =>
        /\ TableReadsDone(xex_info.reads, EntryCountOf(xex_buffer))
        /\ ExecRecords(xex_buffer) = {} =>
              /\ xex_info.kind = "False"
              /\ Len(xex_info.reads) = 4 + 2 * EntryCountOf(xex_buffer)

(***************************************************************************)
(* C10: the scan of the header table does not stop at a matching record:   *)
(* all header_entry_count records are read, and the execution info is      *)
(* decoded at the value of the LAST record with id 0x00040006.             *)
(***************************************************************************)
C10_LastMatchingRecordWins ==
    (/\ Returned
     /\ PassesValidation(xex_buffer)
     /\ TableInside(xex_buffer)
     /\ ExecRecords(xex_buffer) # {})
    => /\ TableReadsDone(xex_info.reads, EntryCountOf(xex_buffer))
       /\ Len(xex_info.reads) > 4 + 2 * EntryCountOf(xex_buffer)
       /\ xex_info.reads[4 + 2 * EntryCountOf(xex_buffer) + 1]
             = Rd(LastExecValue(xex_buffer), 4)
       /\ xex_info.kind = "ok" =>
             xex_info.value.media_id = Hex4(xex_buffer, LastExecValue(xex_buffer))

\* two matching records with different values, the first of them not the last
\* record of the table
C10_Witness ==
    /\ Returned
    /\ PassesValidation(xex_buffer) /\ TableInside(xex_buffer)
    /\ Cardinality(ExecRecords(xex_buffer)) >= 2
    /\ \E k \in ExecRecords(xex_buffer) :
          RecordValue(xex_buffer, k) # LastExecValue(xex_buffer)
    /\ xex_info.kind = "ok"
    /\ xex_info.value.media_id = Hex4(xex_buffer, LastExecValue(xex_buffer))

(***************************************************************************)
(* The images check_iso is applied to: at each of the three probe          *)
(* positions one of several 20-byte regions, followed by the root          *)
(* directory's sector and size, in a file of one of several lengths.       *)
(***************************************************************************)
pack_LE(v) == <<v % 256, (v \div 256) % 256, (v \div 65536) % 256, v \div 16777216>>

SetByte(b, i, x) == [b EXCEPT ![i] = x]

\* the magic, nothing, the magic in lower case, the magic with a byte that is
\* not ASCII in it, the magic with one character changed
ProbeRegions ==
    { MAGIC, Zeros(20), lower(MAGIC), SetByte(MAGIC, 10, 170), SetByte(MAGIC, 20, 66) }

ProbeAt(name) == 32 * sector_size + iso_type(name)

\* lengths: empty; cut inside and right behind each probed volume descriptor;
\* whole
IsoSizes ==
    { 0, ProbeAt("XSF") + 20, ProbeAt("XSF") + 28,
      ProbeAt("XGD3") + 19, ProbeAt("XGD3") + 20, ProbeAt("XGD3") + 27, ProbeAt("XGD3") + 28,
      ProbeAt("GDF") + 20, ProbeAt("GDF") + 24, ProbeAt("GDF") + 28, ProbeAt("GDF") + 4096 }

Descriptor(region, sector, size) == region \o pack_LE(sector) \o pack_LE(size)

ProbeImages ==
    { [size |-> n,
       segs |-> << [at |-> ProbeAt("XSF"),  bytes |-> Descriptor(l, 3, 40)],
                   [at |-> ProbeAt("GDF"),  bytes |-> Descriptor(g, 1, 2048)],
                   [at |-> ProbeAt("XGD3"), bytes |-> Descriptor(x, 2, 300)] >>] :
      l \in ProbeRegions, g \in ProbeRegions, x \in ProbeRegions, n \in IsoSizes }

InitIso ==
    /\ pc = "check_iso"
    /\ iso_file \in ProbeImages
    /\ iso_info = Null
    /\ xex_buffer = <<>> /\ xex_info = Null /\ info = Null
    /\ iso_files = <<>> /\ idx = 0 /\ all_info = <<>> /\ stdout = <<>> /\ written = Null

CheckIso ==
    /\ pc = "check_iso"
    /\ iso_info' = check_iso(iso_file)
    /\ pc' = "returned"
    /\ UNCHANGED <<iso_file, xex_buffer, xex_info, info, iso_files, idx, all_info, stdout, written>>

SpecIso == InitIso /\ [][CheckIso]_vars

\* the 20 bytes at a probe position are all in the file and spell the magic
MagicAt(f, name) ==
    /\ ProbeAt(name) + 20 <= f.size
    /\ \A i \in 1..20 : ByteAt(f, ProbeAt(name) + i - 1) = MAGIC[i]

\* the 8 bytes behind the 20 at a probe position are all in the file
DescriptorWhole(f, name) == ProbeAt(name) + 28 <= f.size

(***************************************************************************)
(* C1: when the 20 bytes at the legacy position 0x20*2048 spell the magic, *)
(* check_iso fails with the legacy-format message whatever stands at the   *)
(* GDF and XGD3 positions, and returns no layout.                          *)
(***************************************************************************)
C1_LegacyAlwaysRejected ==
    (Returned /\ MagicAt(iso_file, "XSF")) =>
        /\ iso_info.kind = "False"
        /\ iso_info.printed = "Original Xbox ISO format not supported"

\* the magic at the legacy position and at both later positions
C1_Witness ==
    /\ Returned
    /\ MagicAt(iso_file, "XSF") /\ MagicAt(iso_file, "GDF") /\ MagicAt(iso_file, "XGD3")
    /\ DescriptorWhole(iso_file, "GDF")
    /\ iso_info.kind = "False"

(***************************************************************************)
(* C2, as stated: when the legacy position does not match, the magic at    *)
(* the GDF position (alone or together with XGD3) makes check_iso return   *)
(* base offset 0xFD90000, the magic at the XGD3 position alone makes it    *)
(* return 0x2080000, and the magic at neither makes it fail with the       *)
(* unknown-format message -- for every byte source.                        *)
(***************************************************************************)
ReturnsOffset(off) == iso_info.kind = "ok" /\ iso_info.value.root_offset = off

C2_Original_OffsetForEverySource ==
    (Returned /\ ~MagicAt(iso_file, "XSF")) =>
        /\ MagicAt(iso_file, "GDF") => ReturnsOffset(265879552)
        /\ (~MagicAt(iso_file, "GDF") /\ MagicAt(iso_file, "XGD3")) => ReturnsOffset(34078720)
        /\ (~MagicAt(iso_file, "GDF") /\ ~MagicAt(iso_file, "XGD3")) =>
              /\ iso_info.kind = "False"
              /\ iso_info.printed = "Unknown ISO format"

(***************************************************************************)
(* C2, amended: the same, for a byte source that holds the 8 bytes behind  *)
(* the accepted magic (root_dir_sector and root_dir_size); when the source *)
(* ends before them, check_iso selects the same layout but returns         *)
(* nothing: struct.error is raised.                                        *)
(***************************************************************************)
C2_Accepted(name, off) ==
    IF DescriptorWhole(iso_file, name)
    THEN ReturnsOffset(off)
    ELSE iso_info.kind = "raise" /\ iso_info.exc = "struct.error"

C2_OffsetWhenDescriptorWhole ==
    (Returned /\ ~MagicAt(iso_file, "XSF")) =>
        /\ MagicAt(iso_file, "GDF") => C2_Accepted("GDF", 265879552)
        /\ (~MagicAt(iso_file, "GDF") /\ MagicAt(iso_file, "XGD3")) =>
              C2_Accepted("XGD3", 34078720)
        /\ (~MagicAt(iso_file, "GDF") /\ ~MagicAt(iso_file, "XGD3")) =>
              /\ iso_info.kind = "False"
              /\ iso_info.printed = "Unknown ISO format"

\* the magic at both later positions: GDF, probed first, wins
C2_Witness ==
    /\ Returned
    /\ ~MagicAt(iso_file, "XSF") /\ MagicAt(iso_file, "GDF") /\ MagicAt(iso_file, "XGD3")
    /\ ReturnsOffset(265879552)
    /\ iso_info.value.root_dir_sector = 1 /\ iso_info.value.root_dir_size = 2048

(***************************************************************************)
(* The images extract_defaultxex is applied to: an accepted layout whose   *)
(* root directory, at sector 40, holds up to two entries at chosen         *)
(* positions, and the data of the entries at sectors 44 and 45.            *)
(***************************************************************************)
Overlay(b, at, x) ==
    [i \in 1..Len(b) |-> IF i > at /\ i <= at + Len(x) THEN x[i - at] ELSE b[i]]

\* a directory entry whose attribute byte stands at position p of the
\* region: sector and size before it, the name length and the name after it
PlaceEntry(b, p, sector, size, namelen, name) ==
    LET e == pack_LE(sector) \o pack_LE(size) \o <<128, namelen>> \o name
    IN  IF p >= 8 THEN Overlay(b, p - 8, e)
        ELSE Overlay(b, 0, SubSeq(e, 9 - p, Len(e)))

EntryNames ==
    { DEFAULT_XEX,
      <<68, 69, 70, 65, 85, 76, 84, 46, 88, 69, 88>>,
      <<68, 101, 70, 97, 117, 108, 84, 46, 88, 101, 120>>,
      <<100, 101, 102, 97, 117, 108, 116, 46, 120, 101, 248>>,
      <<100, 101, 102, 97, 117, 108, 116, 120, 120, 101, 120>> }

\* -1: no entry
FirstEntryAt == { -1, 0, 5, 8, 19, 20, 35 }
SecondEntryAt == { -1, 30 }
DirSizes == { 0, 12, 13, 32, 48 }
EntryData == { <<44, 100>>, <<44, 0>>, <<45, 10>> }

FileData(n) == [i \in 1..n |-> ((i * 7) % 251) + 1]

\* lengths: cut inside the directory, before the data, inside the data; whole
DirImageSizes(off) ==
    { off + 40 * sector_size + 20, off + 44 * sector_size,
      off + 44 * sector_size + 50, off + 46 * sector_size }

DirRegion(dirsize, p1, name, namelen, d, p2) ==
    LET b0 == Zeros(dirsize)
        b1 == IF p1 = -1 THEN b0 ELSE PlaceEntry(b0, p1, d[1], d[2], namelen, name)
    IN  IF p2 = -1 THEN b1 ELSE PlaceEntry(b1, p2, 45, 7, 11, DEFAULT_XEX)

DirImage(layoutName, n, dirsize, region) ==
    [size |-> n,
     segs |-> << [at |-> ProbeAt(layoutName), bytes |-> Descriptor(MAGIC, 40, dirsize)],
                 [at |-> iso_type(layoutName) + 40 * sector_size, bytes |-> region],
                 [at |-> iso_type(layoutName) + 44 * sector_size, bytes |-> FileData(120)],
                 [at |-> iso_type(layoutName) + 45 * sector_size, bytes |-> FileData(60)] >>]

DirImages ==
    UNION { { DirImage(l, n, z, DirRegion(z, p1, name, namelen, d, p2)) :
                n \in DirImageSizes(iso_type(l)), z \in DirSizes,
                p1 \in FirstEntryAt, name \in EntryNames, namelen \in {11, 10},
                d \in EntryData, p2 \in SecondEntryAt } :
            l \in {"GDF", "XGD3"} }

InitDir ==
    /\ pc = "extract_defaultxex"
    /\ iso_file \in DirImages
    /\ iso_info = check_iso(iso_file)
    /\ iso_info.kind = "ok"
    /\ xex_buffer = Null /\ xex_info = Null /\ info = Null
    /\ iso_files = <<>> /\ idx = 0 /\ all_info = <<>> /\ stdout = <<>> /\ written = Null

\* xex_buffer holds what the call gave: the bytes of the entry, False or an
\* exception
ExtractDefaultXex ==
    /\ pc = "extract_defaultxex"
    /\ xex_buffer' = extract_defaultxex(iso_file, iso_info.value)
    /\ pc' = "returned"
    /\ UNCHANGED <<iso_file, iso_info, xex_info, info, iso_files, idx, all_info, stdout, written>>

SpecDir == InitDir /\ [][ExtractDefaultXex]_vars

(***************************************************************************)
(* The root directory as the bytes of the image, and the positions at      *)
(* which an entry named 'default.xex' stands.                              *)
(***************************************************************************)
DirBase(f) == iso_info.value.root_offset + iso_info.value.root_dir_sector * 2048

\* the number of bytes of the region that the image holds
DirLen(f) == Max(0, Min(iso_info.value.root_dir_size, f.size - DirBase(f)))

DirByte(f, p) == ByteAt(f, DirBase(f) + p)

SameLetter(b, c) == b = c \/ (b >= 65 /\ b <= 90 /\ b + 32 = c)

MatchAt(f, p) ==
    /\ p + 13 <= DirLen(f)
    /\ DirByte(f, p + 1) = 11
    /\ \A j \in 1..11 : SameLetter(DirByte(f, p + 1 + j), DEFAULT_XEX[j])

Matching(f) == { p \in 0..(iso_info.value.root_dir_size - 13) : MatchAt(f, p) }

SetMin(S) == CHOOSE x \in S : \A y \in S : x <= y

LE32(f, p) ==
    DirByte(f, p) + 256 * DirByte(f, p + 1) + 65536 * DirByte(f, p + 2)
        + 16777216 * DirByte(f, p + 3)

(***************************************************************************)
(* C9, as stated: the scan examines positions 0 .. root_dir_size-13 in     *)
(* increasing order; when some position matches, the result is taken from  *)
(* the smallest matching p, data_sector being the little-endian u32 at p-8 *)
(* and data_size the one at p-4, for any p, p < 8 included; when none      *)
(* matches, the scan fails with EntryNotFound.                             *)
(***************************************************************************)
C9_TakenFrom(f, p) ==
    /\ xex_buffer.kind = "ok"
    /\ xex_buffer.i = p
    /\ p >= 8 => /\ xex_buffer.file_sector = LE32(f, p - 8)
                 /\ xex_buffer.file_size = LE32(f, p - 4)

C9_NotFound ==
    xex_buffer.kind = "False" /\ xex_buffer.printed = "default.xex not found"

C9_Original_FirstMatchAnyPosition ==
    Returned =>
        IF Matching(iso_file) = {} THEN C9_NotFound
        ELSE C9_TakenFrom(iso_file, SetMin(Matching(iso_file)))

(***************************************************************************)
(* C9, amended: the same when the smallest matching p is at least 8; when  *)
(* it is below 8 there are no 8 bytes before it, the seek to p-8 raises    *)
(* ValueError and the scan yields neither an entry nor EntryNotFound.      *)
(***************************************************************************)
C9_FirstMatchFromPositionEight ==
    Returned =>
        IF Matching(iso_file) = {} THEN C9_NotFound
        ELSE IF SetMin(Matching(iso_file)) >= 8
             THEN C9_TakenFrom(iso_file, SetMin(Matching(iso_file)))
             ELSE xex_buffer.kind = "raise" /\ xex_buffer.exc = "ValueError"

\* two matching positions: the result is taken from the smaller one
C9_Witness ==
    /\ Returned
    /\ Cardinality(Matching(iso_file)) = 2
    /\ SetMin(Matching(iso_file)) = 8
    /\ xex_buffer.kind = "ok" /\ xex_buffer.i = 8
    /\ xex_buffer.file_sector = 44 /\ xex_buffer.file_size = 100

(***************************************************************************)
(* C8, as stated: the data of the matched entry is read at base_offset +   *)
(* data_sector*2048 and a buffer of exactly data_size bytes is returned;   *)
(* when the image holds fewer than data_size bytes from there, the         *)
(* extraction fails with IOError and returns no shorter buffer.            *)
(***************************************************************************)
C8_Entry(f) == SetMin(Matching(f))
C8_DataAt(f) == iso_info.value.root_offset + LE32(f, C8_Entry(f) - 8) * 2048
C8_DataSize(f) == LE32(f, C8_Entry(f) - 4)
C8_Available(f) == Max(0, f.size - C8_DataAt(f))

C8_Returns(f, n) ==
    /\ xex_buffer.kind = "ok"
    /\ Len(xex_buffer.value) = n
    /\ \A i \in 1..n : xex_buffer.value[i] = ByteAt(f, C8_DataAt(f) + i - 1)

C8_Original_ShortReadFails ==
    (Returned /\ Matching(iso_file) # {} /\ C8_Entry(iso_file) >= 8) =>
        IF C8_Available(iso_file) >= C8_DataSize(iso_file)
        THEN C8_Returns(iso_file, C8_DataSize(iso_file))
        ELSE xex_buffer.kind = "raise" /\ xex_buffer.exc = "IOError"

(***************************************************************************)
(* C8, amended: the data is read at base_offset + data_sector*2048 and the *)
(* buffer returned holds data_size bytes when the image has them, and      *)
(* otherwise the bytes the image has from that position (possibly none):   *)
(* a short read is not detected and no IOError is raised.                  *)
(***************************************************************************)
C8_ReturnsWhatTheImageHolds ==
    (Returned /\ Matching(iso_file) # {} /\ C8_Entry(iso_file) >= 8) =>
        C8_Returns(iso_file, Min(C8_DataSize(iso_file), C8_Available(iso_file)))

\* an entry of 100 bytes in an image that ends 50 bytes into it
C8_Witness ==
    /\ Returned
    /\ Matching(iso_file) # {} /\ C8_Entry(iso_file) >= 8
    /\ C8_DataSize(iso_file) = 100 /\ C8_Available(iso_file) = 50
    /\ xex_buffer.kind = "ok" /\ Len(xex_buffer.value) = 50
    /\ xex_buffer.value[50] = ByteAt(iso_file, C8_DataAt(iso_file) + 49)
    /\ xex_buffer.value[50] # 0

(***************************************************************************)
(* Whole images, built from the values written into them: the layout, the  *)
(* position and name of the directory entry, the XEX2 header and the       *)
(* execution info.  The root directory stands at sector 40 and is 40 bytes *)
(* long, the entry's data at sector 44.                                    *)
(***************************************************************************)
InfoBytes(w) ==
    w.media_id \o pack_BE(w.version) \o pack_BE(w.base_version) \o w.title_id
        \o <<w.platform, w.executable_type, w.disc_number, w.disc_count>>

\* the extracted file: exec_index other records, the execution-info record,
\* others_after other records; the execution info info_gap bytes behind the
\* table; code_offset code_gap bytes behind the table
RecordCount(w) == w.exec_index + 1 + w.others_after
TableEnd(w) == 24 + 8 * RecordCount(w)
InfoAt(w) == TableEnd(w) + w.info_gap
CodeOffset(w) == TableEnd(w) + w.code_gap

XexOf(w) ==
    LET recs == [i \in 1..RecordCount(w) |->
                    IF i = w.exec_index + 1 THEN <<w.exec_id, InfoAt(w)>>
                    ELSE <<OtherId, 64>>]
        head == w.magic \o Zeros(4) \o pack_BE(CodeOffset(w)) \o Zeros(4)
                \o pack_BE(w.cert_offset) \o pack_BE(RecordCount(w))
        table == Concat([i \in 1..Len(recs) |-> pack_BE(recs[i][1]) \o pack_BE(recs[i][2])])
    IN  Resize(head \o table \o Zeros(w.info_gap) \o InfoBytes(w), w.xex_len)

BuildIso(w) ==
    LET off == IF w.layout = "none" THEN GDF ELSE iso_type(w.layout)
        dir == PlaceEntry(Zeros(40), w.entry_at, 44, w.data_size, 11, w.name)
        vol == IF w.layout = "none" THEN <<>>
               ELSE << [at |-> ProbeAt(w.layout), bytes |-> Descriptor(MAGIC, 40, 40)] >>
        leg == IF w.legacy
               THEN << [at |-> ProbeAt("XSF"), bytes |-> Descriptor(MAGIC, 40, 40)] >>
               ELSE <<>>
    IN  [size |-> off + w.size,
         segs |-> vol \o leg \o << [at |-> off + 40 * sector_size, bytes |-> dir],
                                   [at |-> off + 44 * sector_size, bytes |-> XexOf(w)] >>]

FieldValues ==
    { [media_id |-> <<10, 188, 222, 241>>, media_hex |-> "0ABCDEF1",
       title_id |-> <<77, 83, 7, 209>>, title_hex |-> "4D5307D1",
       version |-> 66051, base_version |-> 16777216,
       platform |-> 2, executable_type |-> 1, disc_number |-> 1, disc_count |-> 2],
      [media_id |-> <<0, 18, 159, 255>>, media_hex |-> "00129FFF",
       title_id |-> <<255, 238, 0, 10>>, title_hex |-> "FFEE000A",
       version |-> 305419896, base_version |-> 7,
       platform |-> 0, executable_type |-> 255, disc_number |-> 2, disc_count |-> 2],
      [media_id |-> <<171, 205, 239, 1>>, media_hex |-> "ABCDEF01",
       title_id |-> <<65, 97, 70, 102>>, title_hex |-> "41614666",
       version |-> 1, base_version |-> 258,
       platform |-> 128, executable_type |-> 10, disc_number |-> 3, disc_count |-> 4] }

\* a valid image: the magic at the GDF or XGD3 position, a 'default.xex'
\* entry, magic 'XEX2', cert_offset <= code_offset,
\* header_entry_count*8 + 24 <= code_offset and one execution-info record
ValidWritten ==
    { fv @@ [layout |-> l, legacy |-> FALSE, entry_at |-> p, name |-> nm,
             magic |-> XEX2, code_gap |-> c, cert_offset |-> 24,
             exec_id |-> ExecutionInfoId, exec_index |-> k, others_after |-> a,
             info_gap |-> g, xex_len |-> n, data_size |-> n,
             size |-> 46 * sector_size] :
        fv \in FieldValues, l \in {"GDF", "XGD3"}, p \in {8, 27},
        nm \in { DEFAULT_XEX, <<68, 101, 70, 97, 117, 108, 84, 46, 88, 101, 120>> },
        c \in {0, 200, 460}, k \in 0..(MaxEntries - 1), a \in {0, 1},
        g \in {0, 16}, n \in {100, 150, 400} }

BaseWritten ==
    CHOOSE w \in ValidWritten :
        /\ w.layout = "GDF" /\ w.entry_at = 8 /\ w.name = DEFAULT_XEX
        /\ w.code_gap = 0 /\ w.exec_index = 0 /\ w.others_after = 0
        /\ w.info_gap = 16 /\ w.xex_len = 100 /\ w.title_hex = "4D5307D1"

\* a name that os.listdir gave and that open() no longer finds
Unreadable == [size |-> 0, segs |-> <<>>, unreadable |-> TRUE]

\* the files of the directory main runs in: sound images and one for each way
\* of failing
Disk ==
    [ gdf_iso        |-> BuildIso(BaseWritten),
      xgd3_iso       |-> BuildIso([BaseWritten EXCEPT !.layout = "XGD3", !.xex_len = 400,
                                                     !.data_size = 400, !.code_gap = 200]),
      legacy_iso     |-> BuildIso([BaseWritten EXCEPT !.legacy = TRUE]),
      unknown_iso    |-> BuildIso([BaseWritten EXCEPT !.layout = "none"]),
      cut_magic_iso  |-> BuildIso([BaseWritten EXCEPT !.size = 32 * sector_size + 20]),
      no_entry_iso   |-> BuildIso([BaseWritten EXCEPT
                            !.name = <<100, 101, 102, 97, 117, 108, 116, 120, 120, 101, 120>>]),
      entry_at_0_iso |-> BuildIso([BaseWritten EXCEPT !.entry_at = 0]),
      cut_data_iso   |-> BuildIso([BaseWritten EXCEPT !.size = 44 * sector_size + 10]),
      bad_magic_iso  |-> BuildIso([BaseWritten EXCEPT !.magic = <<88, 69, 88, 49>>]),
      bad_cert_iso   |-> BuildIso([BaseWritten EXCEPT !.cert_offset = 512]),
      overflow_iso   |-> BuildIso([BaseWritten EXCEPT !.code_gap = -8, !.cert_offset = 0]),
      big_code_iso   |-> BuildIso([BaseWritten EXCEPT !.code_gap = 460]),
      no_info_iso    |-> BuildIso([BaseWritten EXCEPT !.exec_id = OtherId]),
      cut_info_iso   |-> BuildIso([BaseWritten EXCEPT !.data_size = 60]),
      gone_iso       |-> Unreadable ]

\* [f for f in os.listdir(current_dir) if f.lower().endswith('.iso')]: some of
\* the names, in some order
IsoLists == UNION { [1..k -> DOMAIN Disk] : k \in 0..MaxIsos }

(***************************************************************************)
(* main: the loop over the images found, the report, and the wait for the  *)
(* next scan.  stdout holds the lines of the current run that name an      *)
(* image.                                                                  *)
(***************************************************************************)
Init ==
    /\ pc = "loop"
    /\ iso_files \in IsoLists
    /\ idx = 1
    /\ all_info = <<>>
    /\ stdout = <<>>
    /\ info = Null
    /\ iso_file = Null /\ iso_info = Null /\ xex_buffer = Null /\ xex_info = Null
    /\ written = Null

\* for iso in iso_files: one turn of the loop
ProcessIso ==
    /\ pc = "loop"
    /\ idx <= Len(iso_files)
    /\ LET r == parse(Disk[iso_files[idx]]) IN
         /\ info' = r
         /\ IF r.kind = "raise"
            THEN \* the exception leaves main, and the process
                 /\ pc' = "crashed"
                 /\ stdout' = Append(stdout, <<"->", iso_files[idx]>>)
                 /\ UNCHANGED <<idx, all_info>>
            ELSE /\ pc' = "loop"
                 /\ idx' = idx + 1
                 /\ IF r.kind = "ok"
                    THEN /\ all_info' = Append(all_info, r.value @@ [iso_name |-> iso_files[idx]])
                         /\ stdout' = stdout \o << <<"->", iso_files[idx]>>,
                                                   <<"Title ID", r.value.title_id>> >>
                    ELSE /\ all_info' = all_info
                         /\ stdout' = stdout \o << <<"->", iso_files[idx]>>,
                                                   <<"Failed to process", iso_files[idx]>> >>
    /\ UNCHANGED <<iso_file, iso_info, xex_buffer, xex_info, iso_files, written>>

\* after the loop: the report file when there is something to report, then
\* "Press Enter to Scan Again..."
WriteReport ==
    /\ pc = "loop"
    /\ idx > Len(iso_files)
    /\ stdout' = IF all_info # <<>>
                 THEN Append(stdout, <<"Game information saved", Len(all_info)>>)
                 ELSE stdout
    /\ pc' = "input"
    /\ UNCHANGED <<iso_file, iso_info, xex_buffer, xex_info, info, iso_files, idx, all_info, written>>

\* Enter: main returns and the while True loop calls it again, on the
\* directory as it was (every listing is an initial state)
ScanAgain ==
    /\ pc = "input"
    /\ iso_files' = iso_files
    /\ pc' = "loop"
    /\ idx' = 1
    /\ all_info' = <<>>
    /\ stdout' = <<>>
    /\ info' = Null
    /\ UNCHANGED <<iso_file, iso_info, xex_buffer, xex_info, written>>

Next == ProcessIso \/ WriteReport \/ ScanAgain

Spec == Init /\ [][Next]_vars

(***************************************************************************)
(* parse applied to one image built from written values.                   *)
(***************************************************************************)
InitParse ==
    /\ pc = "parse"
    /\ written \in ValidWritten
    /\ iso_file = BuildIso(written)
    /\ info = Null
    /\ iso_info = Null /\ xex_buffer = Null /\ xex_info = Null
    /\ iso_files = <<>> /\ idx = 0 /\ all_info = <<>> /\ stdout = <<>>

Parse ==
    /\ pc = "parse"
    /\ info' = parse(iso_file)
    /\ pc' = "returned"
    /\ UNCHANGED <<iso_file, iso_info, xex_buffer, xex_info, iso_files, idx, all_info,
                   stdout, written>>

SpecParse == InitParse /\ [][Parse]_vars

(***************************************************************************)
(* C6, as stated: for every valid image built from known values, parse     *)
(* returns a record whose media_id and title_id are the uppercase hex of   *)
(* the 4 bytes written, whose version and base_version are the big-endian  *)
(* values written, and whose platform, executable_type, disc_number and    *)
(* disc_count are the bytes written.                                       *)
(***************************************************************************)
C6_Reproduces ==
    /\ info.kind = "ok"
    /\ info.value.media_id = written.media_hex
    /\ info.value.title_id = written.title_hex
    /\ info.value.version = written.version
    /\ info.value.base_version = written.base_version
    /\ info.value.platform = written.platform
    /\ info.value.executable_type = written.executable_type
    /\ info.value.disc_number = written.disc_number
    /\ info.value.disc_count = written.disc_count
    /\ info.value.root_offset = iso_type(written.layout)

C6_Original_EveryValidImageRoundTrips == Returned => C6_Reproduces

(***************************************************************************)
(* C6, amended: the round trip holds for every such image whose            *)
(* code_offset does not exceed sys.getsizeof of the buffer extracted for   *)
(* default.xex; an image whose code_offset exceeds it is rejected and      *)
(* parse returns None.                                                     *)
(***************************************************************************)
C6_RoundTripUnderSizeCheck ==
    Returned =>
        IF CodeOffset(written) <= sys_getsizeof(Zeros(written.data_size))
        THEN C6_Reproduces
        ELSE info.kind = "None"

\* an XGD3 image, the entry named in mixed case, the execution-info record
\* second in the table, and code_offset beyond the end of the file
C6_Witness ==
    /\ Returned
    /\ written.layout = "XGD3" /\ written.name # DEFAULT_XEX /\ written.entry_at = 27
    /\ written.exec_index = 1 /\ written.others_after = 1
    /\ CodeOffset(written) > written.data_size
    /\ written.title_hex = "FFEE000A"
    /\ C6_Reproduces

(***************************************************************************)
(* C7: parse is called on every image of the list, in order, whatever the  *)
(* earlier ones gave; each call ends with a complete record or with None;  *)
(* no failure of a stage leaves parse as an exception or ends the loop.    *)
(***************************************************************************)
ResultKeys ==
    { "sector_size", "root_offset", "identifier", "root_dir_sector", "root_dir_size",
      "image_size", "volume_size", "volume_sectors", "media_id", "version",
      "base_version", "title_id", "platform", "executable_type", "disc_number",
      "disc_count", "game_name" }

ArrowLines == SelectSeq(stdout, LAMBDA l : l[1] = "->")

C7_FailureIsolation ==
    /\ pc \in {"loop", "input"}
    /\ info.kind \in {"none", "None", "ok"}
    /\ info.kind = "ok" => DOMAIN info.value = ResultKeys
    /\ ArrowLines = [i \in 1..(idx - 1) |-> <<"->", iso_files[i]>>]
    /\ Len(stdout) >= 2 * (idx - 1)
    /\ \A i \in 1..Len(all_info) : DOMAIN all_info[i] = ResultKeys \cup {"iso_name"}
    /\ pc = "input" => idx = Len(iso_files) + 1

\* a run over two images: a stage raised on the first, the second was parsed
C7_Witness ==
    /\ pc = "input"
    /\ Len(iso_files) = 2
    /\ TryBody(Disk[iso_files[1]]).kind = "raise"
    /\ Len(all_info) = 1 /\ all_info[1].iso_name = iso_files[2]
    /\ all_info[1].title_id = "4D5307D1" /\ all_info[1].game_name = "Halo 3"

=============================================================================
